---- MODULE Spec2Model ----
(***************************************************************************)
(* Model of pierrechevalier83/cursed: the ncurses matrix display.          *)
(*                                                                         *)
(* Two header variants exist.  "box" is the box-drawing variant            *)
(* (src/unnamed/part_000), "simple" is the separator-string variant        *)
(* (src/include/matrix_display.hpp).  A display instance is one of them.   *)
(*                                                                         *)
(* The terminal is modelled by the sequence of curses calls made on it     *)
(* (out) and by the set of attributes switched on at the cursor (attrs).   *)
(* Text is a sequence of one-character strings.                            *)
(***************************************************************************)
EXTENDS Integers, Sequences, FiniteSets

\* ------------------------------------------------------------------ bounds
MaxRows == 2
MaxCols == 2
MaxWidth == 3
MaxHeight == 3
MaxLen == 3

VARIABLES
    variant,    \* "box" or "simple": which header the display is built from
    ndebug,     \* TRUE when the build defines NDEBUG (assert compiled out)
    style,      \* MatrixStyle: cell_width, cell_height
    data,       \* the matrix handed to print / width_in_chars
    stale,      \* what the never-written member Color::n holds when read:
                \* an indeterminate value, here any of the color codes in use
    pc,         \* position of the print call
    print_n,    \* print's local n (result of n_rows)
    idx,        \* print's loop: index of the next row of data
    first,      \* print's local first (box variant)
    out,        \* the curses calls made so far, in order
    attrs,      \* attributes switched on at the cursor
    ret,        \* what width_in_chars returned, <<>> before the call
    arg_content,\* alignment call: its content argument
    arg_width,  \* alignment call: its width argument
    called,     \* alignment call: which function was applied, "" before
    result      \* alignment call: the text returned / written

vars == <<variant, ndebug, style, data, stale, pc, print_n, idx, first, out,
          attrs, ret, arg_content, arg_width, called, result>>

displayVars == <<variant, ndebug, style, data, stale, pc, print_n, idx, first,
                 out, attrs, ret>>

alignVars == <<arg_content, arg_width, called, result>>

\* ------------------------------------------------------------ curses calls
NoAttr == [kind |-> "none", n |-> 0]

COLOR_PAIR(n) == [kind |-> "pair", n |-> n]

A_BOLD == [kind |-> "bold", n |-> 0]

addwstr(s) == [op |-> "addwstr", s |-> s, attr |-> NoAttr]

addch(c) == [op |-> "addch", s |-> <<c>>, attr |-> NoAttr]

attron(a) == [op |-> "attron", s |-> <<>>, attr |-> a]

attroff(a) == [op |-> "attroff", s |-> <<>>, attr |-> a]

IsAttrCall(call) == call.op \in {"attron", "attroff"}

\* The attributes on at the cursor after the calls, made in order from the
\* attributes as: attron switches the named attribute on, attroff switches the
\* named attribute off and leaves every other attribute as it is.  So an
\* attribute the calls name is on exactly when the last call naming it is an
\* attron, and every other attribute stays as it was.
ApplyCalls(as, calls) ==
    LET attrCalls == SelectSeq(calls, IsAttrCall)
        named == {attrCalls[i].attr : i \in 1..Len(attrCalls)}
        lastOf(a) ==
            CHOOSE i \in 1..Len(attrCalls) :
                /\ attrCalls[i].attr = a
                /\ \A j \in (i + 1)..Len(attrCalls) : attrCalls[j].attr # a
    IN (as \ named) \cup {a \in named : attrCalls[lastOf(a)].op = "attron"}

\* std::wstring(count, c)
wstring(count, c) == [i \in 1..count |-> c]

\* ------------------------------------------------------------------ Color
\* Color::Color(int n): the parameter n is used, the member n is not written.
Color_ctor(n) == <<attron(COLOR_PAIR(n)), attron(A_BOLD)>>

\* Mutant of Color_dtor: the pair is never switched off.
Color_dtor_leak == <<attroff(A_BOLD)>>

\* Color::~Color(): reads the member n, which no constructor initialised.
Color_dtor == <<attroff(COLOR_PAIR(stale)), attroff(A_BOLD)>>

\* ------------------------------------------------------------------- Cell
Cell(s, c) == [content |-> s, color_code |-> c]

\* --------------------------------------------------------- output helpers
n_chars(n, c) == <<addwstr(wstring(n, c))>>

addwch(c) == n_chars(1, c)

RECURSIVE n_strings(_, _)
n_strings(n, s) ==
    IF n > 0 THEN <<addwstr(s)>> \o n_strings(n - 1, s) ELSE <<>>

end_line == <<addch("\n")>>

\* ------------------------------------------------------- alignment, "box"
\* positioned returns the text.  Its callers pass 0 <= offset <= width - length
\* whenever length < width.
positioned(content, width, offset) ==
    IF Len(content) >= width THEN content
    ELSE LET left == wstring(offset, " ")
             right == wstring(width - (Len(content) + offset), " ")
             line == left \o content \o right
         IN line

\* Mutant of centered: the odd blank goes to the left.
centered_round_up(content, width) ==
    LET offset == IF Len(content) <= width
                  THEN (width - Len(content) + 1) \div 2
                  ELSE -((Len(content) - width + 1) \div 2)
    IN positioned(content, width, offset)

\* (width - content.length()) / 2 is computed in size_t and narrowed to the int
\* parameter of positioned.  With length > width the difference wraps to
\* 2^64 - d, its half is 2^63 - ceil(d / 2), and the low 32 bits read as
\* -ceil(d / 2).
centered(content, width) ==
    LET offset == IF Len(content) <= width THEN (width - Len(content)) \div 2
                  ELSE -((Len(content) - width + 1) \div 2)
    IN positioned(content, width, offset)

\* width - content.length() in size_t, narrowed to int: width - length in
\* either case.
aligned_right(content, width) ==
    LET offset == width - Len(content)
    IN positioned(content, width, offset)

aligned_left(content, width) == positioned(content, width, 0)

\* enum class Aligned { right, left, center }
Aligned == {"right", "left", "center"}

\* The switch has no break: control enters at the selected case and falls
\* through every case after it, each one overwriting s.
printline_s(content, width, alignment) ==
    LET s0 == <<>>
        s1 == IF alignment = "right" THEN aligned_right(content, width) ELSE s0
        s2 == IF alignment \in {"right", "left"}
              THEN aligned_left(content, width) ELSE s1
        s3 == IF alignment \in {"right", "left", "center"}
              THEN centered(content, width) ELSE s2
    IN s3

printline(content, width, alignment) ==
    <<addwstr(printline_s(content, width, alignment))>>

\* ---------------------------------------------------- alignment, "simple"
\* In the simple header the helpers write the text instead of returning it;
\* width is a size_t.
hpp_positioned(content, width, offset) ==
    IF Len(content) >= width THEN <<addwstr(content)>>
    ELSE LET left == wstring(offset, " ")
             right == wstring(width - (Len(content) + offset), " ")
             line == left \o content \o right
         IN <<addwstr(line)>>

hpp_centered(content, width) ==
    LET offset == IF Len(content) <= width THEN (width - Len(content)) \div 2
                  ELSE -((Len(content) - width + 1) \div 2)
    IN hpp_positioned(content, width, offset)

hpp_aligned_right(content, width) ==
    LET offset == width - Len(content)
    IN hpp_positioned(content, width, offset)

hpp_aligned_left(content, width) == hpp_positioned(content, width, 0)

\* --------------------------------------------------------------- BoxStyle
box ==
    [corners |-> [top_left |-> "tl", top_right |-> "tr",
                  bottom_left |-> "bl", bottom_right |-> "br"],
     intersections |-> [top |-> "tt", bottom |-> "bt", left |-> "lt",
                        right |-> "rt", center |-> "cx"],
     borders |-> [horizontal |-> "-", vertical |-> "|"]]

\* The simple header's MatrixStyle carries three separator strings.
row_sep == <<"=">>

col_sep == <<"!">>

corner_sep == <<"+">>

\* ------------------------------------------------- MatrixDisplay, "box"
RECURSIVE Flat_calls(_)
Flat_calls(seqs) ==
    IF seqs = <<>> THEN <<>> ELSE Head(seqs) \o Flat_calls(Tail(seqs))

RECURSIVE value_row_cells(_, _, _)
value_row_cells(row, i, intersection) ==
    IF i > Len(row) THEN <<>>
    ELSE (IF i = 1 THEN <<>> ELSE addwch(intersection))
         \o Color_ctor(row[i].color_code)
         \o printline(row[i].content, style.cell_width, "center")
         \o Color_dtor
         \o value_row_cells(row, i + 1, intersection)

\* Mutant of value_row: the scope of a cell ends after the glyph that follows
\* the cell.
RECURSIVE value_row_cells_late(_, _, _, _)
value_row_cells_late(row, i, intersection, right) ==
    IF i > Len(row) THEN <<>>
    ELSE Color_ctor(row[i].color_code)
         \o printline(row[i].content, style.cell_width, "center")
         \o addwch(IF i = Len(row) THEN right ELSE intersection)
         \o Color_dtor
         \o value_row_cells_late(row, i + 1, intersection, right)

value_row_late(row, left, intersection, right) ==
    addwch(left) \o value_row_cells_late(row, 1, intersection, right)
    \o end_line

value_row(row, left, intersection, right) ==
    addwch(left) \o value_row_cells(row, 1, intersection) \o addwch(right)
    \o end_line

\* Mutant of sep_row: the border is written without color scopes.
sep_row_uncolored(n, left, plain, intersection, right) ==
    addwch(left)
    \o Flat_calls([i \in 1..n |->
           (IF i = 1 THEN <<>> ELSE addwch(intersection))
           \o <<addwstr(wstring(style.cell_width, plain))>>])
    \o addwch(right) \o end_line

\* Cell(s) takes the default color_code 0.
sep_row(n, left, plain, intersection, right) ==
    LET sep == [i \in 1..n |-> Cell(wstring(style.cell_width, plain), 0)]
    IN value_row(sep, left, intersection, right)

\* Mutant of top_row: the center cross in place of the top tee.
top_row_cross(n) ==
    sep_row(n, box.corners.top_left, box.borders.horizontal,
            box.intersections.center, box.corners.top_right)

top_row(n) ==
    sep_row(n, box.corners.top_left, box.borders.horizontal,
            box.intersections.top, box.corners.top_right)

bottom_row(n) ==
    sep_row(n, box.corners.bottom_left, box.borders.horizontal,
            box.intersections.bottom, box.corners.bottom_right)

middle_row(n) ==
    sep_row(n, box.intersections.left, box.borders.horizontal,
            box.intersections.center, box.intersections.right)

RECURSIVE times(_, _)
times(k, calls) == IF k > 0 THEN calls \o times(k - 1, calls) ELSE <<>>

\* Mutant of values: the padding is rounded up at the top.
values_top_heavy(row) ==
    LET padding_row ==
            [i \in 1..Len(row) |->
                [row[i] EXCEPT !.content = wstring(style.cell_width, " ")]]
        line_height == 1
        top_pad == style.cell_height \div 2
        bottom_pad == style.cell_height - (top_pad + line_height)
        vertical == box.borders.vertical
    IN times(top_pad, value_row(padding_row, vertical, vertical, vertical))
       \o value_row(row, vertical, vertical, vertical)
       \o times(bottom_pad, value_row(padding_row, vertical, vertical, vertical))

\* cell_height >= 1 in every display, so the int divisions are of
\* non-negative numbers.
values(row) ==
    LET padding_row ==
            [i \in 1..Len(row) |->
                [row[i] EXCEPT !.content = wstring(style.cell_width, " ")]]
        line_height == 1
        top_pad == (style.cell_height - line_height) \div 2
        bottom_pad == style.cell_height - (top_pad + line_height)
        vertical == box.borders.vertical
    IN times(top_pad, value_row(padding_row, vertical, vertical, vertical))
       \o value_row(row, vertical, vertical, vertical)
       \o times(bottom_pad, value_row(padding_row, vertical, vertical, vertical))

\* ---------------------------------------------- MatrixDisplay, "simple"
corner == <<addwstr(corner_sep)>>

sep_col == <<addwstr(col_sep)>>

hpp_sep_row(n) ==
    corner \o times(n, n_strings(style.cell_width, row_sep) \o corner)
    \o end_line

RECURSIVE value_cells(_, _)
value_cells(row, i) ==
    IF i > Len(row) THEN <<>>
    ELSE Color_ctor(row[i].color_code)
         \o hpp_centered(row[i].content, style.cell_width)
         \o Color_dtor
         \o sep_col
         \o value_cells(row, i + 1)

value(row) == sep_col \o value_cells(row, 1) \o end_line

value_padding(height, row) ==
    LET padding == [i \in 1..Len(row) |-> [row[i] EXCEPT !.content = <<>>]]
    IN times(height, value(padding))

hpp_values(row) ==
    LET line_height == 1
        previous_pad == (style.cell_height - line_height) \div 2
        next_pad == style.cell_height - (previous_pad + line_height)
    IN value_padding(previous_pad, row) \o value(row)
       \o value_padding(next_pad, row)

\* ------------------------------------------------ n_rows, width_in_chars
\* Mutant of n_rows: no assertion.
n_rows_unchecked(d) ==
    IF d # <<>> THEN {[abort |-> FALSE, value |-> Len(d[1])]}
    ELSE {[abort |-> FALSE, value |-> 0]}

\* Mutant of n_rows: the number of rows, data.size().
n_rows_size(d) ==
    IF d # <<>> THEN {[abort |-> FALSE, value |-> Len(d)]}
    ELSE {[abort |-> TRUE, value |-> 0]}

\* The outcomes of n_rows(data).  With data empty the assertion aborts; in a
\* build with NDEBUG the assertion is gone and data[0].size() reads past an
\* empty vector: the call may crash or return any number.
n_rows(d) ==
    IF d # <<>> THEN {[abort |-> FALSE, value |-> Len(d[1])]}
    ELSE IF ~ndebug THEN {[abort |-> TRUE, value |-> 0]}
    ELSE {[abort |-> TRUE, value |-> 0]}
         \cup {[abort |-> FALSE, value |-> k] : k \in 0..MaxCols}

Emit(calls) ==
    /\ out' = out \o calls
    /\ attrs' = ApplyCalls(attrs, calls)

\* A behaviour is one call on one display: width_in_chars or print.
width_in_chars ==
    /\ pc = "idle"
    /\ \E r \in n_rows(data) :
          IF r.abort
          THEN /\ pc' = "aborted_width_in_chars"
               /\ ret' = ret
          ELSE /\ pc' = "returned"
               /\ ret' = <<(style.cell_width + 1) * r.value>>
    /\ UNCHANGED <<variant, ndebug, style, data, stale, print_n, idx, first,
                   out, attrs>>
    /\ UNCHANGED alignVars

\* print, box variant: n_rows and top_row.
print_top ==
    /\ variant = "box"
    /\ pc = "idle"
    /\ \E r \in n_rows(data) :
          IF r.abort
          THEN /\ pc' = "aborted"
               /\ UNCHANGED <<print_n, out, attrs>>
          ELSE /\ pc' = "rows"
               /\ print_n' = r.value
               /\ Emit(top_row(r.value))
    /\ idx' = 1
    /\ first' = TRUE
    /\ UNCHANGED <<variant, ndebug, style, data, stale, ret>>
    /\ UNCHANGED alignVars

\* print, box variant: one iteration of the loop over data.
print_row ==
    /\ variant = "box"
    /\ pc = "rows"
    /\ idx <= Len(data)
    /\ Emit((IF first THEN <<>> ELSE middle_row(print_n))
            \o values(data[idx]))
    /\ first' = FALSE
    /\ idx' = idx + 1
    /\ UNCHANGED <<variant, ndebug, style, data, stale, pc, print_n, ret>>
    /\ UNCHANGED alignVars

\* print, box variant: bottom_row after the loop, and return.
print_bottom ==
    /\ variant = "box"
    /\ pc = "rows"
    /\ idx > Len(data)
    /\ Emit(bottom_row(print_n))
    /\ pc' = "done"
    /\ UNCHANGED <<variant, ndebug, style, data, stale, print_n, idx, first, ret>>
    /\ UNCHANGED alignVars

\* print, simple variant: n_rows and the first sep_row.
hpp_print_sep ==
    /\ variant = "simple"
    /\ pc = "idle"
    /\ \E r \in n_rows(data) :
          IF r.abort
          THEN /\ pc' = "aborted"
               /\ UNCHANGED <<print_n, out, attrs>>
          ELSE /\ pc' = "rows"
               /\ print_n' = r.value
               /\ Emit(hpp_sep_row(r.value))
    /\ idx' = 1
    /\ UNCHANGED <<variant, ndebug, style, data, stale, first, ret>>
    /\ UNCHANGED alignVars

\* print, simple variant: one iteration of the loop over data.
hpp_print_row ==
    /\ variant = "simple"
    /\ pc = "rows"
    /\ idx <= Len(data)
    /\ Emit(hpp_values(data[idx]) \o hpp_sep_row(print_n))
    /\ idx' = idx + 1
    /\ UNCHANGED <<variant, ndebug, style, data, stale, pc, print_n, first, ret>>
    /\ UNCHANGED alignVars

\* print, simple variant: the loop is over, print returns.
hpp_print_return ==
    /\ variant = "simple"
    /\ pc = "rows"
    /\ idx > Len(data)
    /\ pc' = "done"
    /\ UNCHANGED <<variant, ndebug, style, data, stale, print_n, idx, first,
                   out, attrs, ret>>
    /\ UNCHANGED alignVars

\* ------------------------------------------------------------- the inputs
\* Sample cells: contents of length 1, 3 and 0, three color codes.
Cells ==
    <<Cell(<<"a">>, 1), Cell(<<"b", "c", "d">>, 2), Cell(<<>>, 0)>>

ColorCodes == {Cells[i].color_code : i \in 1..Len(Cells)}

\* The rows of c cells a caller may pass: the sample cells in rotation.
Rows(c) ==
    {[i \in 1..c |-> Cells[((k + i - 1) % Len(Cells)) + 1]] : k \in 0..1}

\* Every rectangular matrix of at most MaxRows rows and MaxCols columns, the
\* matrix without rows and the matrices of empty rows included.
Matrices == UNION {[1..r -> Rows(c)] : r \in 0..MaxRows, c \in 0..MaxCols}

Styles == [cell_width : 0..MaxWidth, cell_height : 1..MaxHeight]

Init ==
    /\ variant \in {"box", "simple"}
    /\ ndebug \in BOOLEAN
    /\ style \in Styles
    /\ data \in Matrices
    /\ stale \in ColorCodes
    /\ pc = "idle"
    /\ print_n = 0
    /\ idx = 1
    /\ first = TRUE
    /\ out = <<>>
    /\ attrs = {}
    /\ ret = <<>>
    /\ arg_content = <<>>
    /\ arg_width = 0
    /\ called = ""
    /\ result = <<>>

Next ==
    \/ width_in_chars
    \/ print_top
    \/ print_row
    \/ print_bottom
    \/ hpp_print_sep
    \/ hpp_print_row
    \/ hpp_print_return

Spec == Init /\ [][Next]_vars

\* ------------------------------------- the alignment helpers on their own
Letters == {"a", "b"}

Contents == UNION {[1..l -> Letters] : l \in 0..MaxLen}

AlignInit ==
    /\ variant = "box"
    /\ ndebug = FALSE
    /\ style = [cell_width |-> 0, cell_height |-> 1]
    /\ data = <<>>
    /\ stale = 0
    /\ pc = "idle"
    /\ print_n = 0
    /\ idx = 1
    /\ first = TRUE
    /\ out = <<>>
    /\ attrs = {}
    /\ ret = <<>>
    /\ arg_content \in Contents
    /\ arg_width \in 0..MaxWidth
    /\ called = ""
    /\ result = <<>>

\* A helper of the box header returns its text.
Returns(name, text) ==
    /\ called = ""
    /\ called' = name
    /\ result' = text
    /\ UNCHANGED <<arg_content, arg_width>>
    /\ UNCHANGED displayVars

\* A helper of the simple header, and printline, write their text.
Writes(name, calls) ==
    /\ called = ""
    /\ called' = name
    /\ Emit(calls)
    /\ UNCHANGED <<arg_content, arg_width, result>>
    /\ UNCHANGED <<variant, ndebug, style, data, stale, pc, print_n, idx, first,
                   ret>>

call_aligned_left ==
    Returns("aligned_left", aligned_left(arg_content, arg_width))

call_aligned_right ==
    Returns("aligned_right", aligned_right(arg_content, arg_width))

call_centered ==
    Returns("centered", centered(arg_content, arg_width))

call_hpp_aligned_left ==
    Writes("hpp_aligned_left", hpp_aligned_left(arg_content, arg_width))

call_hpp_aligned_right ==
    Writes("hpp_aligned_right", hpp_aligned_right(arg_content, arg_width))

call_hpp_centered ==
    Writes("hpp_centered", hpp_centered(arg_content, arg_width))

call_printline ==
    \E alignment \in Aligned :
        Writes(alignment, printline(arg_content, arg_width, alignment))

AlignNext ==
    \/ call_aligned_left
    \/ call_aligned_right
    \/ call_centered
    \/ call_hpp_aligned_left
    \/ call_hpp_aligned_right
    \/ call_hpp_centered
    \/ call_printline

SpecAlign == AlignInit /\ [][AlignNext]_vars

\* ------------------------------------------------------------------
\* What the display is claimed to do, stated without the display's code.
\* ------------------------------------------------------------------
Blanks(k) == [i \in 1..k |-> " "]

RECURSIVE Flat(_)
Flat(seqs) == IF seqs = <<>> THEN <<>> ELSE Head(seqs) \o Flat(Tail(seqs))

\* The lines written so far.  Every step of print ends with a line end.
IsLineEndAt(i) == out[i].op = "addch"

\* The positions of the line ends in out, in order.
LineEnds == SelectSeq([i \in 1..Len(out) |-> i], IsLineEndAt)

\* The calls of line k, its line end included, given the line ends.
CallLineOf(ends, k) ==
    SubSeq(out, IF k = 1 THEN 1 ELSE ends[k - 1] + 1, ends[k])

CallLine(k) == CallLineOf(LineEnds, k)

\* The text of a line: the texts of its addwstr calls.
RECURSIVE TextFrom(_, _)
TextFrom(calls, i) ==
    IF i > Len(calls) THEN <<>>
    ELSE (IF calls[i].op = "addwstr" THEN calls[i].s ELSE <<>>)
         \o TextFrom(calls, i + 1)

TextLines ==
    LET ends == LineEnds
    IN [k \in 1..Len(ends) |-> TextFrom(CallLineOf(ends, k), 1)]

IsPrefix(s, t) == Len(s) <= Len(t) /\ \A i \in 1..Len(s) : s[i] = t[i]

\* data is a rectangular matrix with at least one row and one column.
NonEmptyRect ==
    /\ Len(data) >= 1
    /\ Len(data[1]) >= 1
    /\ \A r \in 1..Len(data) : Len(data[r]) = Len(data[1])

R == Len(data)

C == Len(data[1])

W == style.cell_width

H == style.cell_height

TopPad == (H - 1) \div 2

BottomPad == H - 1 - TopPad

\* k blanks, the content, the rest of the width in blanks.
Padded(content, width, k) ==
    Blanks(k) \o content \o Blanks(width - Len(content) - k)

ClaimCentered(content, width) ==
    IF Len(content) >= width THEN content
    ELSE Padded(content, width, (width - Len(content)) \div 2)

\* A border row: left glyph, C runs of W horizontal glyphs with one
\* intersection glyph between adjacent runs, right glyph.
BorderRow(left, intersection, right) ==
    <<left>>
    \o Flat([c \in 1..C |->
              (IF c = 1 THEN <<>> ELSE <<intersection>>)
              \o [i \in 1..W |-> box.borders.horizontal]])
    \o <<right>>

TopBorder ==
    BorderRow(box.corners.top_left, box.intersections.top,
              box.corners.top_right)

MiddleSeparator ==
    BorderRow(box.intersections.left, box.intersections.center,
              box.intersections.right)

BottomBorder ==
    BorderRow(box.corners.bottom_left, box.intersections.bottom,
              box.corners.bottom_right)

BlankValueLine ==
    <<box.borders.vertical>>
    \o Flat([c \in 1..C |-> Blanks(W) \o <<box.borders.vertical>>])

ContentValueLine(row) ==
    <<box.borders.vertical>>
    \o Flat([c \in 1..Len(row) |->
              ClaimCentered(row[c].content, W) \o <<box.borders.vertical>>])

RowLines(r) ==
    [i \in 1..TopPad |-> BlankValueLine]
    \o <<ContentValueLine(data[r])>>
    \o [i \in 1..BottomPad |-> BlankValueLine]
    \o (IF r < R THEN <<MiddleSeparator>> ELSE <<>>)

ExpectedLines ==
    <<TopBorder>> \o Flat([r \in 1..R |-> RowLines(r)]) \o <<BottomBorder>>

\* C1: on a non-empty rectangular matrix the box display writes, in this order,
\* the top border, then per data row TopPad blank value-lines, one content
\* value-line and BottomPad blank value-lines, a middle separator after every
\* row but the last, and the bottom border: R * H + (R - 1) + 2 lines, the line
\* before the bottom border being no separator.  While print runs, the lines
\* written are a prefix of that sequence.
C1_LineOrder ==
    (variant = "box" /\ pc \in {"rows", "done"} /\ NonEmptyRect) =>
        LET lines == TextLines
        IN /\ IsPrefix(lines, ExpectedLines)
           /\ pc = "done" =>
                 /\ lines = ExpectedLines
                 /\ Len(lines) = R * H + (R - 1) + 2
                 /\ lines[Len(lines) - 1] # MiddleSeparator
                 /\ Head(lines[Len(lines) - 1]) = box.borders.vertical

C1_Witness ==
    /\ variant = "box"
    /\ pc = "done"
    /\ NonEmptyRect
    /\ R = 2
    /\ C = 2
    /\ H = 2
    /\ Len(TextLines) = 7

\* C3: every border row the box display writes on a non-empty rectangular
\* matrix is its left glyph, C runs of exactly W horizontal glyphs with one
\* intersection glyph between adjacent runs, and its right glyph,
\* C * (W + 1) + 1 glyphs in all; top, middle and bottom rows use their own
\* corner and tee glyphs.
IsBorderLine(text) ==
    Head(text) \in {box.corners.top_left, box.intersections.left,
                    box.corners.bottom_left}

C3_BorderRows ==
    (variant = "box" /\ pc \in {"rows", "done"} /\ NonEmptyRect) =>
        LET lines == TextLines
        IN /\ lines[1] = TopBorder
           /\ Len(lines[1]) = C * (W + 1) + 1
           /\ \A i \in 2..Len(lines) :
                 IsBorderLine(lines[i]) =>
                     /\ Len(lines[i]) = C * (W + 1) + 1
                     /\ \/ /\ lines[i] = MiddleSeparator
                           /\ pc = "rows" \/ i < Len(lines)
                        \/ /\ lines[i] = BottomBorder
                           /\ pc = "done"
                           /\ i = Len(lines)
           /\ pc = "done" => lines[Len(lines)] = BottomBorder
           /\ \A r \in 1..(R - 1) :
                 (idx > r + 1) => lines[1 + r * (H + 1)] = MiddleSeparator

C3_Witness ==
    /\ variant = "box"
    /\ pc = "done"
    /\ NonEmptyRect
    /\ R = 2
    /\ C = 2
    /\ W = 2
    /\ TextLines[1] = <<"tl", "-", "-", "tt", "-", "-", "tr">>

\* ------------------------------------------------------- color scopes
\* The calls seen as events: a Color scope opens with the attron of its pair
\* and closes with the attroff of a pair; the bold calls belong to the scope.
IsBold(call) == call.attr = A_BOLD

NotBold(call) == ~IsBold(call)

IsBoldOn(call) == call = attron(A_BOLD)

IsBoldOff(call) == call = attroff(A_BOLD)

IsPairOn(call) == call.op = "attron" /\ call.attr.kind = "pair"

IsPairOff(call) == call.op = "attroff" /\ call.attr.kind = "pair"

Write(s) == [ev |-> "write", s |-> s, n |-> 0]

Activate(n) == [ev |-> "activate", s |-> <<>>, n |-> n]

EndScope == [ev |-> "end_scope", s |-> <<>>, n |-> 0]

EndLine == [ev |-> "end_line", s |-> <<>>, n |-> 0]

Event(call) ==
    CASE call.op = "addwstr" -> Write(call.s)
      [] call.op = "addch" -> EndLine
      [] call.op = "attron" -> Activate(call.attr.n)
      [] OTHER -> EndScope

Events(calls) ==
    LET kept == SelectSeq(calls, NotBold)
    IN [i \in 1..Len(kept) |-> Event(kept[i])]

Activations == Len(SelectSeq(out, IsPairOn))

Deactivations == Len(SelectSeq(out, IsPairOff))

Bad == 0 - 1000

\* The number of scopes open after the calls of a line, entered with d scopes
\* open; Bad when at some point fewer than 0 or more than 1 are open.
RECURSIVE LineDepth(_, _, _)
LineDepth(line, i, d) ==
    IF d < 0 \/ d > 1 THEN Bad
    ELSE IF i > Len(line) THEN d
    ELSE LineDepth(line, i + 1,
                   IF IsPairOn(line[i]) THEN d + 1
                   ELSE IF IsPairOff(line[i]) THEN d - 1 ELSE d)

\* At every point of the lines from k on, 0 or 1 scopes are open.
RECURSIVE DepthWithin(_, _, _)
DepthWithin(ends, k, d) ==
    IF d = Bad THEN FALSE
    ELSE IF k > Len(ends) THEN TRUE
    ELSE DepthWithin(ends, k + 1, LineDepth(CallLineOf(ends, k), 1, d))

\* As LineDepth; Bad when the glyph is written while a scope is open.
RECURSIVE LineGlyphDepth(_, _, _, _)
LineGlyphDepth(line, i, d, glyph) ==
    IF i > Len(line) THEN d
    ELSE IF line[i].op = "addwstr" /\ line[i].s = glyph /\ d # 0 THEN Bad
    ELSE LineGlyphDepth(line, i + 1,
                        IF IsPairOn(line[i]) THEN d + 1
                        ELSE IF IsPairOff(line[i]) THEN d - 1 ELSE d,
                        glyph)

\* No call of the lines from k on writes the glyph while a scope is open.
RECURSIVE GlyphOutsideScopes(_, _, _, _)
GlyphOutsideScopes(ends, k, d, glyph) ==
    IF d = Bad THEN FALSE
    ELSE IF k > Len(ends) THEN TRUE
    ELSE GlyphOutsideScopes(ends, k + 1,
                            LineGlyphDepth(CallLineOf(ends, k), 1, d, glyph),
                            glyph)

VerticalGlyph == IF variant = "box" THEN <<box.borders.vertical>> ELSE col_sep

\* The line of out that holds the content of data row r.
ContentLineIndex(r) == 1 + (r - 1) * (H + 1) + TopPad + 1

ContentLineEvents(row) ==
    <<Write(VerticalGlyph)>>
    \o Flat([c \in 1..Len(row) |->
              <<Activate(row[c].color_code),
                Write(ClaimCentered(row[c].content, W)),
                EndScope,
                Write(VerticalGlyph)>>])
    \o <<EndLine>>

\* C2: the content value-line of every data row written so far is: the
\* vertical glyph; per cell in column order a scope activated with the cell's
\* color_code, the content centered to cell_width, the end of the scope, the
\* vertical glyph; the line end.  No vertical glyph is written inside a scope.
C2_ContentLine ==
    /\ (pc \in {"rows", "done"} /\ data # <<>>) =>
          \A r \in 1..(idx - 1) :
              Len(data[r]) >= 1 =>
                  Events(CallLine(ContentLineIndex(r)))
                      = ContentLineEvents(data[r])
    /\ GlyphOutsideScopes(LineEnds, 1, 0, VerticalGlyph)

C2_Witness ==
    /\ pc = "done"
    /\ NonEmptyRect
    /\ C = 2
    /\ W = 3
    /\ H = 3
    /\ data[1][1].color_code # data[1][2].color_code
    /\ Events(CallLine(ContentLineIndex(1))) = ContentLineEvents(data[1])

\* C5: while print runs at most one color scope is open, and when print has
\* returned as many scopes were closed as were opened and none is open.
C5_ScopesBalanced ==
    /\ DepthWithin(LineEnds, 1, 0)
    /\ pc = "done" =>
          /\ Activations = Deactivations
          /\ Len(SelectSeq(out, IsBoldOn)) = Len(SelectSeq(out, IsBoldOff))
          /\ Len(SelectSeq(out, IsBoldOn)) = Activations
          /\ A_BOLD \notin attrs

C5_Witness ==
    /\ pc = "done"
    /\ NonEmptyRect
    /\ R = 2
    /\ C = 2
    /\ Activations >= 4
    /\ Activations = Deactivations

\* The attribute calls of out: four per scope, two at its start, two at its end.
AttrCalls == SelectSeq(out, IsAttrCall)

\* C6: every Color scope with pair n switches pair n on, then bold on, and at
\* its end switches off bold and the same pair n, so that neither is left on.
C6_ScopeLifetime ==
    /\ Len(AttrCalls) % 4 = 0
    /\ \A k \in 0..((Len(AttrCalls) \div 4) - 1) :
          /\ IsPairOn(AttrCalls[4 * k + 1])
          /\ AttrCalls[4 * k + 2] = attron(A_BOLD)
          /\ {AttrCalls[4 * k + 3], AttrCalls[4 * k + 4]}
                = {attroff(A_BOLD), attroff(AttrCalls[4 * k + 1].attr)}
    /\ attrs = {}

\* C6, the order at the end of a scope: bold off first, then the pair.  The
\* destructor switches the pair off first.
C6_ReverseOrder ==
    \A k \in 0..((Len(AttrCalls) \div 4) - 1) :
        /\ AttrCalls[4 * k + 3] = attroff(A_BOLD)
        /\ IsPairOff(AttrCalls[4 * k + 4])

\* C10 as stated: one print call on an R x C matrix opens and closes exactly
\* R * C scopes.
C10_OncePerMatrixCell ==
    (pc = "done" /\ NonEmptyRect) =>
        /\ Activations = R * C
        /\ Deactivations = R * C

\* C10, amended: print opens and closes one scope per cell of every line it
\* colors.  The box display colors every line, border and separator rows and
\* padding lines included: C * (R * H + R + 1) scopes.  The simple display
\* writes its separator rows without color: C * R * H scopes.
C10_OncePerCellPerLine ==
    (pc = "done" /\ NonEmptyRect) =>
        /\ Activations = (IF variant = "box" THEN C * (R * H + R + 1)
                          ELSE C * R * H)
        /\ Deactivations = Activations

C10_Witness ==
    /\ pc = "done"
    /\ NonEmptyRect
    /\ variant = "box"
    /\ R = 2
    /\ C = 2
    /\ H = 3
    /\ Activations = 18

\* ------------------------------------------------- alignment helpers
ClaimAligned(content, width, k) ==
    IF Len(content) >= width THEN content ELSE Padded(content, width, k)

\* The number of leading blanks each helper is claimed to use.
ClaimOffset(name, content, width) ==
    CASE name \in {"aligned_left", "hpp_aligned_left", "left"} -> 0
      [] name \in {"aligned_right", "hpp_aligned_right", "right"} ->
            width - Len(content)
      [] OTHER -> (width - Len(content)) \div 2

ClaimText(name) ==
    ClaimAligned(arg_content, arg_width,
                 ClaimOffset(name, arg_content, arg_width))

\* C4: aligned_left, aligned_right and centered give the content unchanged
\* when it is at least width long, and otherwise width characters: k blanks,
\* the content, width - length - k blanks, with k = 0, width - length and
\* floor((width - length) / 2).  The box header returns the text, the simple
\* header writes it.
C4_Alignment ==
    /\ called \in {"aligned_left", "aligned_right", "centered"} =>
          /\ result = ClaimText(called)
          /\ Len(arg_content) >= arg_width => result = arg_content
          /\ Len(arg_content) < arg_width => Len(result) = arg_width
    /\ called \in {"hpp_aligned_left", "hpp_aligned_right", "hpp_centered"} =>
          /\ out = <<addwstr(ClaimText(called))>>
          /\ Len(arg_content) >= arg_width => out[1].s = arg_content
          /\ Len(arg_content) < arg_width => Len(out[1].s) = arg_width

C4_Witness ==
    /\ called = "centered"
    /\ Len(arg_content) = 1
    /\ arg_width = 2
    /\ result = arg_content \o <<" ">>

\* C9: printline writes aligned_right(content, width) for right,
\* aligned_left(content, width) for left and centered(content, width) for
\* center.
C9_PrintlineSelects ==
    called \in Aligned => out = <<addwstr(ClaimText(called))>>

\* ------------------------------------------------------- preconditions
\* C7 as stated: for a matrix without rows and for a matrix with an empty
\* row, print stops at the fatal check and writes nothing (read for a build
\* that has its assertions compiled in).
C7_EmptyChecked ==
    (~ndebug /\ (data = <<>> \/ \E r \in 1..Len(data) : data[r] = <<>>)) =>
        /\ out = <<>>
        /\ pc \notin {"rows", "done"}

\* C7, amended: with assertions compiled in, print checks before it writes
\* anything only that the matrix has a row.  Without rows it stops at the fatal
\* check and writes nothing; a matrix that has rows, empty rows included,
\* passes the check and print writes its lines.
C7_RowlessChecked ==
    /\ (~ndebug /\ data = <<>>) => (out = <<>> /\ pc \notin {"rows", "done"})
    /\ pc = "aborted" => (out = <<>> /\ data = <<>>)
    /\ data # <<>> =>
          /\ pc # "aborted"
          /\ pc \in {"rows", "done"} => out # <<>>

C7_Witness ==
    /\ pc = "aborted"
    /\ ~ndebug
    /\ data = <<>>
    /\ out = <<>>

\* The other half of the amended C7: a matrix of one empty row is printed.
C7_EmptyRowPrinted ==
    /\ pc = "done"
    /\ data = <<<<>>>>
    /\ out # <<>>

\* C8 as stated: width_in_chars returns (cell_width + 1) * the number of rows.
C8_WidthByRows ==
    (ret # <<>> /\ NonEmptyRect) => ret[1] = (W + 1) * R

\* C8, amended: width_in_chars returns (cell_width + 1) * the number of cells
\* of the first row, that is the number of columns.
C8_WidthByColumns ==
    (ret # <<>> /\ NonEmptyRect) => ret[1] = (W + 1) * C

C8_Witness ==
    /\ ret = <<8>>
    /\ NonEmptyRect
    /\ R = 1
    /\ C = 2
    /\ W = 3

====
